---------------------------- MODULE Spec2Model ----------------------------
(* A model of task_1.py: the contact ledger (Field, Phone, Birthday,      *)
(* Record, AddressBook), the upcoming-birthday query and the command loop *)
(* of main().                                                             *)
(*                                                                        *)
(* Representation.                                                        *)
(*   - a string that is validated character by character (a phone) is a   *)
(*     sequence of one-character strings;                                 *)
(*   - a datetime.date is its proleptic Gregorian ordinal (toordinal());  *)
(*   - a date string "DD.MM.YYYY" is the sequence of its dot-separated    *)
(*     numeric fields, <<day, month, year>>; a string with another number *)
(*     of fields does not match the format;                               *)
(*   - Record.birthday is <<>> for None and <<ordinal>> for a Birthday;   *)
(*   - AddressBook.data is the sequence of its records in insertion order *)
(*     (a Python dict keeps insertion order);                             *)
(*   - a Python call that may raise returns a record whose field exc is   *)
(*     "none" or the exception's type, and whose field cause names the    *)
(*     raise site.                                                        *)
EXTENDS Integers, Sequences, FiniteSets, TLC

VARIABLES
    book,     \* AddressBook.data: Seq of [name, phones, birthday]
    status,   \* the process: "running", "closed" (close/exit), "crashed"
    last,     \* the last call: its command, arguments and outcome
    today     \* datetime.today().date() of the session, as an ordinal

vars == <<book, status, last, today>>

--------------------------------------------------------------------------
(* Bounds and program constants *)

MaxPhones == 3

PhoneLen == 10

Horizon == 7

--------------------------------------------------------------------------
(* datetime: the calendar arithmetic of Python's datetime module *)

IsLeap(y) == y % 4 = 0 /\ (y % 100 # 0 \/ y % 400 = 0)

DaysBeforeYear(y) ==
    LET p == y - 1
    IN  p * 365 + (p \div 4) - (p \div 100) + (p \div 400)

DaysInMonth(y, m) ==
    IF m = 2 /\ IsLeap(y)
    THEN 29
    ELSE <<31, 28, 31, 30, 31, 30, 31, 31, 30, 31, 30, 31>>[m]

DaysBeforeMonth(y, m) ==
    <<0, 31, 59, 90, 120, 151, 181, 212, 243, 273, 304, 334>>[m]
        + (IF m > 2 /\ IsLeap(y) THEN 1 ELSE 0)

\* date(y, m, d).toordinal()
Ymd2Ord(y, m, d) == DaysBeforeYear(y) + DaysBeforeMonth(y, m) + d

\* date.fromordinal(n) as [y, m, d]: the 400/100/4/1-year cycle
\* decomposition of datetime._ord2ymd.
Ord2Ymd(n) ==
    LET n0   == n - 1
        n400 == n0 \div 146097
        r400 == n0 % 146097
        n100 == r400 \div 36524
        r100 == r400 % 36524
        n4   == r100 \div 1461
        r4   == r100 % 1461
        n1   == r4 \div 365
        r1   == r4 % 365
        year == n400 * 400 + 1 + n100 * 100 + n4 * 4 + n1
    IN  IF n1 = 4 \/ n100 = 4
        THEN [y |-> year - 1, m |-> 12, d |-> 31]
        ELSE LET leap  == n1 = 3 /\ (n4 # 24 \/ n100 = 3)
                 add(k) == IF k > 2 /\ leap THEN 1 ELSE 0
                 tab   == <<0, 31, 59, 90, 120, 151, 181, 212, 243, 273, 304, 334, 365>>
                 mdays == <<31, 28, 31, 30, 31, 30, 31, 31, 30, 31, 30, 31>>
                 m0    == (r1 + 50) \div 32
                 p0    == tab[m0] + add(m0)
                 month == IF p0 > r1 THEN m0 - 1 ELSE m0
                 prec  == IF p0 > r1
                          THEN p0 - (mdays[m0 - 1]
                                     + (IF m0 - 1 = 2 /\ leap THEN 1 ELSE 0))
                          ELSE p0
             IN  [y |-> year, m |-> month, d |-> r1 - prec + 1]

\* date.timetuple().tm_wday: Monday is 0, Sunday is 6
Weekday(n) == (n + 6) % 7

\* date.timetuple().tm_yday: 1 for the first of January
Yday(n) == n - DaysBeforeYear(Ord2Ymd(n).y)

\* datetime.strptime(value, "%d.%m.%Y").date(): ValueError unless the
\* string has three fields that name a day of the calendar.
Strptime(value) ==
    IF Len(value) # 3
    THEN [exc |-> "ValueError", val |-> 0]
    ELSE LET d == value[1]
             m == value[2]
             y == value[3]
         IN  IF y \in 1..9999 /\ m \in 1..12 /\ d >= 1 /\ d <= DaysInMonth(y, m)
             THEN [exc |-> "none", val |-> Ymd2Ord(y, m, d)]
             ELSE [exc |-> "ValueError", val |-> 0]

\* date.strftime("%d.%m.%Y")
Strftime(n) == LET x == Ord2Ymd(n) IN <<x.d, x.m, x.y>>

\* date.replace(year=y): ValueError when the day does not exist in year y
\* (29 February in a common year).
ReplaceYear(n, year) ==
    LET x == Ord2Ymd(n)
    IN  IF x.d <= DaysInMonth(year, x.m)
        THEN [exc |-> "none", val |-> Ymd2Ord(year, x.m, x.d)]
        ELSE [exc |-> "ValueError", val |-> 0]

--------------------------------------------------------------------------
(* str: the characters of the model and str.isdigit *)

DecimalDigits == {"0", "1", "2", "3", "4", "5", "6", "7", "8", "9"}

\* Characters for which str.isdigit() is true and str.isdecimal() is
\* false: the superscript digits U+00B9, U+00B2, U+00B3, each one
\* character, written here in ASCII.
SuperscriptDigits == {"^1", "^2", "^3"}

\* str.isdigit(): every character is a digit and there is at least one.
IsDigit(s) ==
    /\ Len(s) > 0
    /\ \A i \in 1..Len(s) : s[i] \in DecimalDigits \cup SuperscriptDigits

--------------------------------------------------------------------------
(* Field, Phone, Birthday *)

\* Phone.is_valid
PhoneIsValid(value) == Len(value) = PhoneLen /\ IsDigit(value)

\* Phone(value): Field.__init__ raises ValueError when is_valid() fails.
Phone(value) ==
    IF PhoneIsValid(value)
    THEN [exc |-> "none", cause |-> "none", val |-> value]
    ELSE [exc |-> "ValueError", cause |-> "InvalidValue", val |-> value]

\* Birthday(value): parses the string; Field.is_valid is always true.
Birthday(value) ==
    LET p == Strptime(value)
    IN  IF p.exc = "none"
        THEN [exc |-> "none", cause |-> "none", val |-> <<p.val>>]
        ELSE [exc |-> "ValueError", cause |-> "InvalidValue", val |-> <<>>]

--------------------------------------------------------------------------
(* Record *)

\* Record(name): no phones, no birthday
Record(name) == [name |-> name, phones |-> <<>>, birthday |-> <<>>]

\* The loop of Record.__find_phone_index__ from position i on; phone_index
\* is the match found so far (0 stands for None, position k for index k-1).
RECURSIVE FindLoop(_, _, _, _)
FindLoop(phones, phone_str, i, phone_index) ==
    IF i > Len(phones)
    THEN phone_index
    ELSE FindLoop(phones, phone_str, i + 1,
                  IF phones[i] = phone_str THEN i ELSE phone_index)

\* A scan that stops at the first match.
Mut_find_first_index(phones, phone_str) ==
    IF \E i \in 1..Len(phones) : phones[i] = phone_str
    THEN CHOOSE i \in 1..Len(phones) :
            /\ phones[i] = phone_str
            /\ \A j \in 1..(i - 1) : phones[j] # phone_str
    ELSE 0

\* Record.__find_phone_index__
find_phone_index(phones, phone_str) == FindLoop(phones, phone_str, 1, 0)

\* del s[i]
DelAt(s, i) == SubSeq(s, 1, i - 1) \o SubSeq(s, i + 1, Len(s))

\* Record.add_phone
add_phone(record, phone) ==
    LET p == Phone(phone)
    IN  IF p.exc # "none"
        THEN [exc |-> p.exc, cause |-> p.cause, record |-> record]
        ELSE [exc |-> "none", cause |-> "none",
              record |-> [record EXCEPT !.phones = Append(@, p.val)]]

\* Record.remove_phone
remove_phone(record, phone) ==
    LET phone_index == find_phone_index(record.phones, phone)
    IN  IF phone_index = 0
        THEN [exc |-> "ValueError", cause |-> "NotFound", record |-> record]
        ELSE [exc |-> "none", cause |-> "none",
              record |-> [record EXCEPT !.phones = DelAt(@, phone_index)]]

\* Validates the new phone before looking the old one up.
Mut_edit_validate_first(record, old_phone, new_phone) ==
    LET p == Phone(new_phone)
        phone_index == find_phone_index(record.phones, old_phone)
    IN  IF p.exc # "none"
        THEN [exc |-> p.exc, cause |-> p.cause, record |-> record]
        ELSE IF phone_index = 0
             THEN [exc |-> "ValueError", cause |-> "NotFound", record |-> record]
             ELSE [exc |-> "none", cause |-> "none",
                   record |-> [record EXCEPT !.phones[phone_index] = p.val]]

\* Record.edit_phone: Phone(new_phone) is evaluated before the assignment,
\* so a rejected new phone leaves the list as it was.
edit_phone(record, old_phone, new_phone) ==
    LET phone_index == find_phone_index(record.phones, old_phone)
    IN  IF phone_index = 0
        THEN [exc |-> "ValueError", cause |-> "NotFound", record |-> record]
        ELSE LET p == Phone(new_phone)
             IN  IF p.exc # "none"
                 THEN [exc |-> p.exc, cause |-> p.cause, record |-> record]
                 ELSE [exc |-> "none", cause |-> "none",
                       record |-> [record EXCEPT !.phones[phone_index] = p.val]]

\* Record.find_phone: val is the Phone found
find_phone(record, phone) ==
    LET phone_index == find_phone_index(record.phones, phone)
    IN  IF phone_index = 0
        THEN [exc |-> "ValueError", cause |-> "NotFound", val |-> <<>>]
        ELSE [exc |-> "none", cause |-> "none",
              val |-> <<record.phones[phone_index]>>]

\* Record.add_birthday
add_birthday_field(record, birthday) ==
    LET b == Birthday(birthday)
    IN  IF b.exc # "none"
        THEN [exc |-> b.exc, cause |-> b.cause, record |-> record]
        ELSE [exc |-> "none", cause |-> "none",
              record |-> [record EXCEPT !.birthday = b.val]]

--------------------------------------------------------------------------
(* AddressBook *)

\* The position of name's record in data, 0 when there is none.
IndexOf(data, name) ==
    IF \E i \in 1..Len(data) : data[i].name = name
    THEN CHOOSE i \in 1..Len(data) : data[i].name = name
    ELSE 0

\* AddressBook.find: <<>> for None, <<record>> otherwise
find(data, name) ==
    IF IndexOf(data, name) = 0 THEN <<>> ELSE <<data[IndexOf(data, name)]>>

\* AddressBook.add_record: self.data[name] = record keeps the position of
\* an existing key and puts a new key last.
add_record(data, record) ==
    LET i == IndexOf(data, record.name)
    IN  IF i = 0 THEN Append(data, record) ELSE [data EXCEPT ![i] = record]

\* The test of line 113 on today and the birthday moved to today's year.
InWindow(date_today, birthday) ==
    /\ Yday(date_today) <= Yday(birthday)
    /\ Yday(birthday) <= Yday(date_today + Horizon)

\* Shifts a weekend birthday to the day before the next Monday.
Mut_congratulate_off_by_one(birthday) ==
    IF Weekday(birthday) = 5 \/ Weekday(birthday) = 6
    THEN birthday + (6 - Weekday(birthday))
    ELSE birthday

\* Lines 114-119: a Saturday or Sunday birthday moves to the next Monday.
CongratulationDate(birthday) ==
    IF Weekday(birthday) = 5 \/ Weekday(birthday) = 6
    THEN birthday + (7 - Weekday(birthday))
    ELSE birthday

\* The loop of get_upcoming_birthdays from record i on. A record whose
\* birthday is None raises AttributeError at record.birthday.value; a
\* birthday that does not exist in today's year raises ValueError.
RECURSIVE UpcomingLoop(_, _, _, _)
UpcomingLoop(data, date_today, i, upcoming_birthdays) ==
    IF i > Len(data)
    THEN [exc |-> "none", cause |-> "none", val |-> upcoming_birthdays]
    ELSE LET record == data[i]
         IN  IF record.birthday = <<>>
             THEN [exc |-> "AttributeError", cause |-> "NoBirthday", val |-> <<>>]
             ELSE LET r == ReplaceYear(record.birthday[1], Ord2Ymd(date_today).y)
                  IN  IF r.exc # "none"
                      THEN [exc |-> r.exc, cause |-> "NoSuchDay", val |-> <<>>]
                      ELSE UpcomingLoop(data, date_today, i + 1,
                             IF InWindow(date_today, r.val)
                             THEN Append(upcoming_birthdays,
                                    [name |-> record.name,
                                     congratulation_date |->
                                        Strftime(CongratulationDate(r.val))])
                             ELSE upcoming_birthdays)

\* AddressBook.get_upcoming_birthdays
get_upcoming_birthdays(data, date_today) == UpcomingLoop(data, date_today, 1, <<>>)

--------------------------------------------------------------------------
(* Command handlers. A handler's result: exc and cause of what it raised   *)
(* ("none" when it returned), ret the kind of value returned, text the    *)
(* returned string, items the returned list, data the ledger afterwards,   *)
(* escaped whether the exception leaves the handler.                       *)

Return(ret, text, items, data) ==
    [exc |-> "none", cause |-> "none", ret |-> ret, text |-> text,
     items |-> items, data |-> data, escaped |-> FALSE]

Raise(exc, cause, data) ==
    [exc |-> exc, cause |-> cause, ret |-> "none", text |-> "",
     items |-> <<>>, data |-> data, escaped |-> TRUE]

\* The decorator input_error: ValueError, IndexError and KeyError become a
\* returned string; any other exception passes through.
input_error(r) ==
    CASE r.exc = "ValueError" ->
            [r EXCEPT !.ret = "str", !.text = "Invalid arguments.", !.escaped = FALSE]
      [] r.exc = "IndexError" ->
            [r EXCEPT !.ret = "str", !.text = "Give me a username.", !.escaped = FALSE]
      [] r.exc = "KeyError" ->
            [r EXCEPT !.ret = "str", !.text = "{args} doesn't exist.", !.escaped = FALSE]
      [] OTHER -> r

\* add_contact with a fresh Record for every call.
Mut_add_contact_fresh_record(args, data) ==
    IF Len(args) # 2
    THEN Raise("ValueError", "ArgCount", data)
    ELSE LET r == add_phone(Record(args[1]), args[2])
         IN  IF r.exc # "none"
             THEN Raise(r.exc, r.cause, data)
             ELSE Return("str", "Contact added.", <<>>, add_record(data, r.record))

\* add_contact, undecorated
add_contact(args, data) ==
    IF Len(args) # 2
    THEN Raise("ValueError", "ArgCount", data)
    ELSE LET name   == args[1]
             phone  == args[2]
             found  == find(data, name)
             record == IF found = <<>> THEN Record(name) ELSE found[1]
             r      == add_phone(record, phone)
         IN  IF r.exc # "none"
             THEN Raise(r.exc, r.cause, data)
             ELSE Return("str", "Contact added.", <<>>, add_record(data, r.record))

\* change_phone, undecorated: edit_phone mutates the record the ledger holds
change_phone(args, data) ==
    IF Len(args) # 3
    THEN Raise("ValueError", "ArgCount", data)
    ELSE LET name  == args[1]
             found == find(data, name)
         IN  IF found = <<>>
             THEN Return("str", "{name} doesn't exists. Add it before changing it.",
                         <<>>, data)
             ELSE LET r == edit_phone(found[1], args[2], args[3])
                  IN  IF r.exc # "none"
                      THEN Raise(r.exc, r.cause, data)
                      ELSE Return("str", "Contact updated.", <<>>,
                                  [data EXCEPT ![IndexOf(data, name)] = r.record])

\* get_phones, undecorated: args[0] raises IndexError on an empty list
get_phones(args, data) ==
    IF Len(args) = 0
    THEN Raise("IndexError", "ArgCount", data)
    ELSE LET found == find(data, args[1])
         IN  IF found = <<>>
             THEN Return("str", "{name} doesn't exist.", <<>>, data)
             ELSE Return("phones", "", found[1].phones, data)

\* get_all_contacts
get_all_contacts(data) ==
    IF Len(data) = 0
    THEN Return("str", "Contacts list is empty.", <<>>, data)
    ELSE Return("book", "", <<>>, data)

\* add_birthday, undecorated: a new record is put into the ledger before
\* the date is parsed.
add_birthday(args, data) ==
    IF Len(args) # 2
    THEN Raise("ValueError", "ArgCount", data)
    ELSE LET name   == args[1]
             found  == find(data, name)
             data1  == IF found = <<>> THEN add_record(data, Record(name)) ELSE data
             record == IF found = <<>> THEN Record(name) ELSE found[1]
             r      == add_birthday_field(record, args[2])
         IN  IF r.exc # "none"
             THEN Raise(r.exc, r.cause, data1)
             ELSE Return("str", "Birthday added.", <<>>,
                         [data1 EXCEPT ![IndexOf(data1, name)] = r.record])

\* show_birthday, undecorated
show_birthday(args, data) ==
    IF Len(args) = 0
    THEN Raise("IndexError", "ArgCount", data)
    ELSE LET found == find(data, args[1])
         IN  IF found = <<>>
             THEN Return("str", "{name} doesn't exist.", <<>>, data)
             ELSE IF found[1].birthday = <<>>
                  THEN Return("str", "{name} doesn't have birthday.", <<>>, data)
                  ELSE Return("birthday", "", found[1].birthday, data)

\* birthdays: not decorated, so what get_upcoming_birthdays raises leaves it
birthdays(data, date_today) ==
    IF Len(data) = 0
    THEN Return("str", "Contacts list is empty.", <<>>, data)
    ELSE LET u == get_upcoming_birthdays(data, date_today)
         IN  IF u.exc # "none"
             THEN Raise(u.exc, u.cause, data)
             ELSE Return("upcoming", "", u.val, data)

--------------------------------------------------------------------------
(* Inputs *)

Names == {"Alice", "Bob"}

RECURSIVE Rep(_, _)
Rep(c, n) == IF n = 0 THEN <<>> ELSE Append(Rep(c, n - 1), c)

Ones     == Rep("1", PhoneLen)                      \* "1111111111"
Supers   == Rep("^2", PhoneLen)                     \* ten superscript twos
Nine     == Rep("1", PhoneLen - 1)                  \* one character short
Lettered == Append(Rep("1", PhoneLen - 1), "a")     \* "111111111a"

RawPhones == {Ones, Supers, Nine, Lettered}

OldPhones == {Ones, Supers}

\* Date strings of a session: a valid date and a day that does not exist.
SessionDates == {<<12, 6, 1990>>, <<31, 2, 2024>>}

\* Date strings of the birthday query's specification.
QueryDates ==
    {<<9, 6, 1990>>, <<10, 6, 1990>>, <<12, 6, 1990>>, <<15, 6, 2024>>,
     <<16, 6, 2000>>, <<17, 6, 1990>>, <<18, 6, 1990>>, <<29, 2, 2000>>,
     <<24, 12, 1990>>, <<30, 12, 1990>>, <<31, 12, 2000>>, <<2, 1, 1990>>,
     <<15, 13, 2024>>, <<12, 6>>}

\* Monday 10.06.2024
SessionTodays == {Ymd2Ord(2024, 6, 10)}

\* Monday 10.06.2024, Saturday 24.12.2022, Sunday 29.12.2024
QueryTodays == {Ymd2Ord(2024, 6, 10), Ymd2Ord(2022, 12, 24), Ymd2Ord(2024, 12, 29)}

AddArgs ==
    {<<n, p>> : n \in Names, p \in RawPhones}
        \cup {<<>>, <<"Alice", Ones, Ones>>}

ChangeArgs ==
    {<<n, o, p>> : n \in Names, o \in OldPhones, p \in {Ones, Supers, Lettered}}
        \cup {<<"Alice", Ones>>}

NameArgs == {<<>>} \cup {<<n>> : n \in Names} \cup {<<"Alice", "Bob">>}

BirthdayArgs(dates) ==
    {<<n, d>> : n \in Names, d \in dates} \cup {<<"Alice">>}

--------------------------------------------------------------------------
(* main: the state after load_data() on a missing file, and one action per *)
(* branch of the command loop                                             *)

Started ==
    [cmd |-> "start", args |-> <<>>, exc |-> "none", cause |-> "none",
     ret |-> "str", text |-> "Welcome to the assistant bot!", items |-> <<>>]

InitFor(todays) ==
    /\ book = <<>>
    /\ status = "running"
    /\ last = Started
    /\ today \in todays

Init == InitFor(SessionTodays)

\* The number of phones in the ledger
RECURSIVE PhoneCount(_)
PhoneCount(data) ==
    IF data = <<>> THEN 0 ELSE Len(Head(data).phones) + PhoneCount(Tail(data))

\* The effect of one iteration of the loop that ran command cmd with
\* result r. The guard on the phone lists bounds the model.
Step(cmd, args, r) ==
    /\ PhoneCount(r.data) <= MaxPhones
    /\ book' = r.data
    /\ last' = [cmd |-> cmd, args |-> args, exc |-> r.exc, cause |-> r.cause,
                ret |-> r.ret, text |-> r.text, items |-> r.items]
    /\ status' = IF r.escaped THEN "crashed" ELSE "running"
    /\ UNCHANGED today

CmdHello ==
    /\ status = "running"
    /\ Step("hello", <<>>, Return("str", "How can I help you?", <<>>, book))

CmdAdd(args) ==
    /\ status = "running"
    /\ Step("add", args, input_error(add_contact(args, book)))

CmdChange(args) ==
    /\ status = "running"
    /\ Step("change", args, input_error(change_phone(args, book)))

CmdPhone(args) ==
    /\ status = "running"
    /\ Step("phone", args, input_error(get_phones(args, book)))

CmdAddBirthday(args) ==
    /\ status = "running"
    /\ Step("add-birthday", args, input_error(add_birthday(args, book)))

CmdShowBirthday(args) ==
    /\ status = "running"
    /\ Step("show-birthday", args, input_error(show_birthday(args, book)))

CmdBirthdays ==
    /\ status = "running"
    /\ Step("birthdays", <<>>, birthdays(book, today))

CmdAll ==
    /\ status = "running"
    /\ Step("all", <<>>, get_all_contacts(book))

CmdInvalid ==
    /\ status = "running"
    /\ Step("unknown", <<>>, Return("str", "Invalid command.", <<>>, book))

\* close / exit: the goodbye, save_data and the end of the loop
CmdClose ==
    /\ status = "running"
    /\ status' = "closed"
    /\ last' = [cmd |-> "close", args |-> <<>>, exc |-> "none", cause |-> "none",
                ret |-> "str", text |-> "Good bye!", items |-> <<>>]
    /\ UNCHANGED <<book, today>>

\* An empty input line: cmd, *args = user_input.split() raises ValueError
\* in parse_input, outside every handler.
EmptyLine ==
    /\ status = "running"
    /\ Step("", <<>>, Raise("ValueError", "EmptyInput", book))

\* Record.remove_phone called on a record of the ledger; the exception, if
\* any, goes to the caller.
CallRemovePhone(name, phone) ==
    /\ status = "running"
    /\ find(book, name) # <<>>
    /\ LET r == remove_phone(find(book, name)[1], phone)
       IN  Step("remove_phone", <<name, phone>>,
                [exc |-> r.exc, cause |-> r.cause, ret |-> "none", text |-> "",
                 items |-> <<>>, escaped |-> FALSE,
                 data |-> [book EXCEPT ![IndexOf(book, name)] = r.record]])

\* Record.find_phone called on a record of the ledger
CallFindPhone(name, phone) ==
    /\ status = "running"
    /\ find(book, name) # <<>>
    /\ LET r == find_phone(find(book, name)[1], phone)
       IN  Step("find_phone", <<name, phone>>,
                [exc |-> r.exc, cause |-> r.cause,
                 ret |-> IF r.exc = "none" THEN "phone" ELSE "none", text |-> "",
                 items |-> r.val, escaped |-> FALSE, data |-> book])

Next ==
    \/ CmdHello
    \/ \E args \in AddArgs : CmdAdd(args)
    \/ \E args \in ChangeArgs : CmdChange(args)
    \/ \E args \in NameArgs : CmdPhone(args)
    \/ \E args \in BirthdayArgs(SessionDates) : CmdAddBirthday(args)
    \/ \E args \in NameArgs : CmdShowBirthday(args)
    \/ CmdBirthdays
    \/ CmdAll
    \/ CmdInvalid
    \/ CmdClose
    \/ EmptyLine
    \/ \E n \in Names, p \in OldPhones : CallRemovePhone(n, p)
    \/ \E n \in Names, p \in OldPhones : CallFindPhone(n, p)

Spec == Init /\ [][Next]_vars

\* The birthday query on ledgers built by add-birthday, over the dates and
\* the values of today that its cases need.
InitQuery == InitFor(QueryTodays)

NextQuery ==
    \/ \E args \in BirthdayArgs(QueryDates) : CmdAddBirthday(args)
    \/ CmdBirthdays

SpecQuery == InitQuery /\ [][NextQuery]_vars

--------------------------------------------------------------------------
(* Properties *)

PhonesOf(data, name) ==
    IF IndexOf(data, name) = 0 THEN <<>> ELSE data[IndexOf(data, name)].phones

BirthdayOf(data, name) ==
    IF IndexOf(data, name) = 0 THEN <<>> ELSE data[IndexOf(data, name)].birthday

\* The records of data other than name's are the same in data2.
OthersUnchanged(data, data2, name) ==
    /\ Len(data2) = Len(data)
    /\ \A i \in 1..Len(data) :
          /\ data2[i].name = data[i].name
          /\ data[i].name # name => data2[i] = data[i]

Hits(phones, value) == {i \in 1..Len(phones) : phones[i] = value}

Largest(S) == CHOOSE i \in S : \A j \in S : j <= i

\* The birthday of record i moved to the year of today, as an ordinal.
Reanchored(i) ==
    LET b == Ord2Ymd(book[i].birthday[1])
    IN  Ymd2Ord(Ord2Ymd(today).y, b.m, b.d)

\* Days since a known Monday (10.06.2024), modulo 7: 5 is a Saturday.
DayOfWeek(n) == (n - Ymd2Ord(2024, 6, 10)) % 7

Reported(name) == \E k \in 1..Len(last.items) : last.items[k].name = name

Queried == last.cmd = "birthdays" /\ last.ret = "upcoming"

\* C1: birthdays on a ledger that holds a record without a birthday does
\* not fail, and its result is the one the ledger without those records
\* gives.
C1_MissingBirthdaySkipped ==
    (last.cmd = "birthdays" /\ \E i \in 1..Len(book) : book[i].birthday = <<>>)
        => /\ last.exc = "none"
           /\ last.items =
                get_upcoming_birthdays(
                    SelectSeq(book, LAMBDA r : r.birthday # <<>>), today).val

\* C2: a record is reported by a birthdays call that returns exactly when
\* its birthday moved to today's year is a date d with
\* today <= d <= today + 7 days.
C2_ReportedIffWithinSevenDays ==
    Queried =>
        \A i \in 1..Len(book) :
            Reported(book[i].name)
                <=> (today <= Reanchored(i) /\ Reanchored(i) <= today + Horizon)

\* C3: every reported congratulation date is the birthday moved to today's
\* year when that is Monday to Friday, two days later when it is a
\* Saturday and one day later when it is a Sunday; it is never a Saturday
\* or a Sunday.
C3_WeekendMovesToMonday ==
    Queried =>
        \A k \in 1..Len(last.items) :
            LET d  == Reanchored(IndexOf(book, last.items[k].name))
                cd == last.items[k].congratulation_date
                c  == Ymd2Ord(cd[3], cd[2], cd[1])
            IN  /\ cd[2] \in 1..12 /\ cd[1] \in 1..DaysInMonth(cd[3], cd[2])
                /\ DayOfWeek(c) \in 0..4
                /\ c = d + (CASE DayOfWeek(d) = 5 -> 2
                              [] DayOfWeek(d) = 6 -> 1
                              [] OTHER -> 0)

\* A result that reports a Saturday birthday and a Sunday birthday.
C3_Witness ==
    /\ Queried
    /\ \E k \in 1..Len(last.items) :
          DayOfWeek(Reanchored(IndexOf(book, last.items[k].name))) = 5
    /\ \E k \in 1..Len(last.items) :
          DayOfWeek(Reanchored(IndexOf(book, last.items[k].name))) = 6

RecordFailure(l) == l.cause \in {"InvalidValue", "NotFound"}

DispatcherText(exc) == input_error(Raise(exc, "none", <<>>)).text

\* C4: a validation failure and a missing phone never show as the same
\* exception, and input_error never gives them the same string; stated of
\* two failing calls in a row.
C4_KindsDistinguishable ==
    [][(RecordFailure(last) /\ RecordFailure(last') /\ last.cause # last'.cause)
          => /\ last.exc # last'.exc
             /\ DispatcherText(last.exc) # DispatcherText(last'.exc)]_vars

HandlerCmds ==
    {"add", "change", "phone", "all", "add-birthday", "show-birthday", "birthdays"}

\* C5: no command handler lets an exception out: after a handler ran the
\* session is still running.
C5_HandlersReturn == last.cmd \in HandlerCmds => status = "running"

\* C6: change on an existing record. Old phone absent: the NotFound raise,
\* whatever the new phone is. Otherwise new phone invalid: the validation
\* raise. Otherwise the entry at the last index holding the old phone is
\* replaced and nothing else changes. Both failures leave the ledger as it
\* was.
C6_EditPhone ==
    [][(last'.cmd = "change" /\ Len(last'.args) = 3
            /\ IndexOf(book, last'.args[1]) # 0)
          => LET name   == last'.args[1]
                 old    == last'.args[2]
                 new    == last'.args[3]
                 before == PhonesOf(book, name)
                 after  == PhonesOf(book', name)
             IN  IF Hits(before, old) = {}
                 THEN /\ last'.exc = "ValueError" /\ last'.cause = "NotFound"
                      /\ book' = book
                 ELSE IF ~PhoneIsValid(new)
                 THEN /\ last'.exc = "ValueError" /\ last'.cause = "InvalidValue"
                      /\ book' = book
                 ELSE /\ last'.exc = "none"
                      /\ Len(after) = Len(before)
                      /\ \A i \in 1..Len(before) :
                            after[i] = IF i = Largest(Hits(before, old))
                                       THEN new ELSE before[i]
                      /\ BirthdayOf(book', name) = BirthdayOf(book, name)
                      /\ OthersUnchanged(book, book', name)]_vars

\* A successful change whose old phone is still in the list before the
\* entry that was replaced.
C6_Witness ==
    /\ last.cmd = "change" /\ last.exc = "none" /\ Len(last.args) = 3
    /\ last.args[2] # last.args[3]
    /\ LET phones == PhonesOf(book, last.args[1])
       IN  \E i, j \in 1..Len(phones) :
              i < j /\ phones[i] = last.args[2] /\ phones[j] = last.args[3]

\* C7: remove_phone removes the entry at the last index holding the phone
\* and nothing else: the entries before it stay, the entries after it move
\* up by one. A phone that is absent raises and the list stays as it was.
C7_RemovePhone ==
    [][last'.cmd = "remove_phone"
          => LET name   == last'.args[1]
                 raw    == last'.args[2]
                 before == PhonesOf(book, name)
                 after  == PhonesOf(book', name)
             IN  IF Hits(before, raw) = {}
                 THEN /\ last'.exc = "ValueError" /\ last'.cause = "NotFound"
                      /\ book' = book
                 ELSE LET k == Largest(Hits(before, raw))
                      IN  /\ last'.exc = "none"
                          /\ Len(after) = Len(before) - 1
                          /\ \A i \in 1..(k - 1) : after[i] = before[i]
                          /\ \A i \in k..Len(after) : after[i] = before[i + 1]
                          /\ BirthdayOf(book', name) = BirthdayOf(book, name)
                          /\ OthersUnchanged(book, book', name)]_vars

\* A successful removal after which the removed value is still in the list
\* and another value follows it.
C7_Witness ==
    /\ last.cmd = "remove_phone" /\ last.exc = "none"
    /\ LET phones == PhonesOf(book, last.args[1])
       IN  \E i, j \in 1..Len(phones) :
              i < j /\ phones[i] = last.args[2] /\ phones[j] # last.args[2]

\* C8: a successful add appends its phone to the list stored under the
\* name (a new list for a new name) and keeps the birthday and the other
\* records; a failing add and every add-birthday leave all phone lists as
\* they were. So the list under a name is the phones of the successful adds
\* for it, in order.
C8_AddAppends ==
    [][/\ (last'.cmd = "add" /\ last'.exc = "none")
            => LET name == last'.args[1]
               IN  /\ PhoneIsValid(last'.args[2])
                   /\ PhonesOf(book', name)
                        = Append(PhonesOf(book, name), last'.args[2])
                   /\ BirthdayOf(book', name) = BirthdayOf(book, name)
                   /\ \A i \in 1..Len(book) : book'[i].name = book[i].name
                   /\ \A n \in Names \ {name} :
                        /\ PhonesOf(book', n) = PhonesOf(book, n)
                        /\ BirthdayOf(book', n) = BirthdayOf(book, n)
       /\ (last'.cmd = "add" /\ last'.exc # "none") => book' = book
       /\ last'.cmd = "add-birthday"
            => \A n \in Names : PhonesOf(book', n) = PhonesOf(book, n)]_vars

\* An add on a record that has a birthday and already held the same phone.
C8_Witness ==
    /\ last.cmd = "add" /\ last.exc = "none"
    /\ BirthdayOf(book, last.args[1]) # <<>>
    /\ LET phones == PhonesOf(book, last.args[1])
       IN  /\ Len(phones) >= 2
           /\ phones[Len(phones) - 1] = last.args[2]
           /\ phones[Len(phones)] = last.args[2]

\* C9: every phone stored in the ledger is a string of exactly 10 decimal
\* digits.
C9_PhonesAreTenDecimalDigits ==
    \A i \in 1..Len(book) :
        \A k \in 1..Len(book[i].phones) :
            /\ Len(book[i].phones[k]) = PhoneLen
            /\ \A j \in 1..Len(book[i].phones[k]) :
                  book[i].phones[k][j] \in DecimalDigits

ErrorAdvisories ==
    {"Invalid arguments.", "Give me a username.", "{name} doesn't exist.",
     "{args} doesn't exist."}

\* C10: a command that ends with an error advisory leaves the ledger as it
\* was.
C10_AdvisoryLeavesLedger ==
    [][(last'.ret = "str" /\ last'.text \in ErrorAdvisories) => book' = book]_vars

==========================================================================
